---- MODULE Spec2Model ----
(***************************************************************************)
(* Model of thermostore's numerical core: build_grid_properties            *)
(* (physics/heat_equations.py) and HeatSolver (physics/solver.py), with    *)
(* the Material / Layer accessors they read.                                *)
(*                                                                         *)
(* Numbers.  A float is modelled as a pair <<n, d>>.  With d > 0 it is the *)
(* exact rational n/d in lowest terms (float64 rounding is not modelled).  *)
(* With d = 0 it is one of the IEEE special values numpy produces on a     *)
(* division by zero: <<1,0>> = +inf, <<-1,0>> = -inf, <<0,0>> = nan        *)
(* (signed zeros are not modelled).                                         *)
(***************************************************************************)
EXTENDS Integers, Sequences, FiniteSets, TLC

\* ---------------------------------------------------------------- bounds
MaxLayers == 2
MaxSteps == 3
MaxRecordEvery == 2

\* ------------------------------------------------------------ arithmetic
Abs(a) == IF a < 0 THEN -a ELSE a
Sgn(a) == IF a < 0 THEN -1 ELSE IF a > 0 THEN 1 ELSE 0
Max2(a, b) == IF a >= b THEN a ELSE b

RECURSIVE Gcd(_, _)
Gcd(a, b) == IF b = 0 THEN a ELSE Gcd(b, a % b)

\* the rational n/d (d # 0) in lowest terms with a positive denominator
Q(n, d) ==
    LET g == Gcd(Abs(n), Abs(d))
        s == IF d < 0 THEN -1 ELSE 1
    IN  <<s * (n \div g), s * (d \div g)>>

NaN == <<0, 0>>
Inf(s) == <<s, 0>>
Zero == <<0, 1>>
One == <<1, 1>>
Half == <<1, 2>>
R(n) == <<n, 1>>

IsNaN(a) == a = NaN
IsInf(a) == a[2] = 0 /\ a[1] # 0
IsFinite(a) == a[2] > 0
IsZero(a) == a = Zero

Neg(a) == <<-a[1], a[2]>>

Add(a, b) ==
    IF IsNaN(a) \/ IsNaN(b) THEN NaN
    ELSE IF IsInf(a) THEN (IF IsInf(b) /\ b # a THEN NaN ELSE a)
    ELSE IF IsInf(b) THEN b
    ELSE LET g == Gcd(a[2], b[2])
         IN  Q(a[1] * (b[2] \div g) + b[1] * (a[2] \div g), (a[2] \div g) * b[2])

Sub(a, b) == Add(a, Neg(b))

Mul(a, b) ==
    IF IsNaN(a) \/ IsNaN(b) THEN NaN
    ELSE IF IsInf(a) \/ IsInf(b)
         THEN (IF IsZero(a) \/ IsZero(b) THEN NaN ELSE Inf(Sgn(a[1]) * Sgn(b[1])))
    ELSE LET g1 == Gcd(Abs(a[1]), b[2])
             g2 == Gcd(Abs(b[1]), a[2])
         IN  Q((a[1] \div g1) * (b[1] \div g2), (a[2] \div g2) * (b[2] \div g1))

\* numpy float64 division: x/0 is +-inf, 0/0 is nan (a warning, no exception)
Div(a, b) ==
    IF IsNaN(a) \/ IsNaN(b) THEN NaN
    ELSE IF IsInf(b) THEN (IF IsInf(a) THEN NaN ELSE Zero)
    ELSE IF IsZero(b) THEN (IF IsZero(a) THEN NaN ELSE Inf(Sgn(a[1])))
    ELSE IF IsInf(a) THEN Inf(Sgn(a[1]) * Sgn(b[1]))
    ELSE Mul(a, Q(b[2], b[1]))

\* comparisons: any comparison with nan is false
Lt(a, b) ==
    /\ ~IsNaN(a) /\ ~IsNaN(b)
    /\ a # b
    /\ IF IsInf(a) THEN a[1] < 0
       ELSE IF IsInf(b) THEN b[1] > 0
       ELSE a[1] * b[2] < b[1] * a[2]
Le(a, b) == ~IsNaN(a) /\ ~IsNaN(b) /\ (a = b \/ Lt(a, b))

Floor(a) == a[1] \div a[2]
Ceil(a) == -((-a[1]) \div a[2])

\* Python 3 round(): to the nearest integer, ties to the even one
Round(a) ==
    LET f == Floor(a)
        twice == Sub(Mul(R(2), a), R(2 * f))
    IN  IF Lt(twice, One) THEN f
        ELSE IF Lt(One, twice) THEN f + 1
        ELSE IF f % 2 = 0 THEN f ELSE f + 1

RECURSIVE SumSeq(_)
SumSeq(s) == IF s = <<>> THEN Zero ELSE Add(Head(s), SumSeq(Tail(s)))

Last(s) == s[Len(s)]

\* ------------------------------------------------- materials and layers
\* Python None where a float is expected (a float is a pair)
None == <<>>
NoErr == "none"

\* Material.density / specific_heat / thermal_conductivity: props.get(key)
\* as a float, None when the key is missing
density(mat) == mat.density
specific_heat(mat) == mat.specific_heat
thermal_conductivity(mat) == mat.thermal_conductivity

\* Layer.get_conductivity: the layer's own conductivity wins over the material's
get_conductivity(layer) ==
    IF layer.conductivity # None THEN layer.conductivity
    ELSE thermal_conductivity(layer.material)

Mat(k_, rho_, cp_) ==
    [thermal_conductivity |-> k_, density |-> rho_, specific_heat |-> cp_]
Lay(L, kov, mat) == [thickness |-> L, conductivity |-> kov, material |-> mat]

\* the layers a caller may pass
GoodLayers ==
    { Lay(R(1), None, Mat(R(1), R(1), R(1))),
      Lay(R(3), R(2), Mat(None, R(2), R(1))) }
NonPhysicalLayers ==
    { Lay(R(2), None, Mat(R(1), Zero, R(1))) }
BadLayers ==
    { Lay(Zero, None, Mat(R(1), R(1), R(1))),
      Lay(R(-1), None, Mat(R(1), R(1), R(1))),
      Lay(R(1), None, Mat(None, R(1), R(1))),
      Lay(R(1), R(1), Mat(R(1), None, R(1))),
      Lay(R(1), None, Mat(R(1), R(1), None)) }
LayerChoices == GoodLayers \cup NonPhysicalLayers \cup BadLayers
DxTargets == {R(1), R(2)}

LayerSeqs == UNION { [1..n -> LayerChoices] : n \in 0..MaxLayers }

\* ------------------------------------------------------------------ state
\* the solver's grid fields as one value
Grid(xs, ks, rho_cps, dxu) == [x |-> xs, k |-> ks, rho_cp |-> rho_cps, dx_uniform |-> dxu]

VARIABLES
    phase,        \* "start", "failed" (the constructor raised), "configured", "solving"
    layers, dx_target,            \* the constructor's arguments
    x, k, rho_cp, dx_uniform,     \* self.x, self.k, self.rho_cp, self.dx_uniform
    err,                          \* the exception the last call raised
    args,                         \* the arguments of the current / last solve call
    dt, nsteps, n_records,        \* locals of solve
    T, step, rec_idx, T_record, times,
    result,                       \* what the last solve call returned
    used                          \* an earlier solve call on this solver has ended

grid == <<x, k, rho_cp, dx_uniform>>
locals == <<dt, nsteps, n_records, T, step, rec_idx, T_record, times>>
vars == <<phase, layers, dx_target, x, k, rho_cp, dx_uniform, err, args,
          dt, nsteps, n_records, T, step, rec_idx, T_record, times, result, used>>

self == Grid(x, k, rho_cp, dx_uniform)

\* ---------------------------------------------------------- grid builder
ErrAlphaMissing == "ValueError: Material missing one of k/rho/cp in props."
ErrNotPositive == "ValueError: rho and cp must be positive."

\* compute_alpha_from_material: alpha = k / (rho * cp); the only place where
\* rho and cp are required to be positive (the solver never calls it)
compute_alpha_from_material(mat) ==
    LET kk == thermal_conductivity(mat)
        rho == density(mat)
        cp == specific_heat(mat)
    IN  IF kk = None \/ rho = None \/ cp = None
        THEN [ok |-> FALSE, err |-> ErrAlphaMissing, alpha |-> None]
        ELSE IF Le(rho, Zero) \/ Le(cp, Zero)
        THEN [ok |-> FALSE, err |-> ErrNotPositive, alpha |-> None]
        ELSE [ok |-> TRUE, err |-> NoErr, alpha |-> Div(kk, Mul(rho, cp))]

ErrThickness == "ValueError: Layer thickness must be positive."
ErrMissing == "ValueError: Layer's material missing k, rho, or cp."

\* if L <= 0: raise
BadThickness_strict(L) == Lt(L, Zero)
BadThickness(L) == Le(L, Zero)

\* if k is None or rho is None or cp is None: raise
MissingProps(kk, rho, cp) == kk = None \/ rho = None \/ cp = None

\* n = max(1, int(max(1, round(L / dx_target))))
CellCount_nomax(L, dxt) == Round(Div(L, dxt))
CellCount(L, dxt) == Max2(1, Max2(1, Round(Div(L, dxt))))

\* center = current_x + (i + 0.5) * dx, for i = 0 .. n-1
CellCenter(current_x, i, dx) ==
    Add(current_x, Mul(Add(R(i), Half), dx))

\* build_grid_properties: the loop over the layers from layer j on, with the
\* accumulated lists and the running offset; a raise drops the lists
RECURSIVE BuildFrom(_, _, _, _, _, _, _)
BuildFrom(ls, dxt, j, xs, ks, rho_cps, current_x) ==
    IF j > Len(ls)
    THEN [ok |-> TRUE, err |-> NoErr, x |-> xs, k |-> ks, rho_cp |-> rho_cps]
    ELSE
    LET layer == ls[j]
        L == layer.thickness
    IN  IF BadThickness(L)
        THEN [ok |-> FALSE, err |-> ErrThickness, x |-> <<>>, k |-> <<>>, rho_cp |-> <<>>]
        ELSE
        LET n == CellCount(L, dxt)
            dx == Div(L, R(n))
            kk == get_conductivity(layer)
            rho == density(layer.material)
            cp == specific_heat(layer.material)
        IN  IF MissingProps(kk, rho, cp)
            THEN [ok |-> FALSE, err |-> ErrMissing, x |-> <<>>, k |-> <<>>, rho_cp |-> <<>>]
            ELSE BuildFrom(ls, dxt, j + 1,
                     xs \o [i \in 1..n |-> CellCenter(current_x, i - 1, dx)],
                     ks \o [i \in 1..n |-> kk],
                     rho_cps \o [i \in 1..n |-> Mul(rho, cp)],
                     Add(current_x, L))

build_grid_properties(ls, dxt) == BuildFrom(ls, dxt, 1, <<>>, <<>>, <<>>, Zero)

\* np.diff(x)
Diff(xs) == [i \in 1..(IF Len(xs) = 0 THEN 0 ELSE Len(xs) - 1) |-> Sub(xs[i + 1], xs[i])]

\* HeatSolver.__init__: dx_uniform is 1.0 when there is no spacing to average
DxUniform(xs) ==
    IF Len(Diff(xs)) = 0 THEN One
    ELSE Div(SumSeq(Diff(xs)), R(Len(Diff(xs))))

\* ----------------------------------------------------------------- solver
ErrNoCells == "ValueError: No grid cells created."
ErrZeroDivision == "ZeroDivisionError: float division by zero"
ErrNanToInt == "ValueError: cannot convert float NaN to integer"
ErrInfToInt == "OverflowError: cannot convert float infinity to integer"
ErrIndex == "IndexError: index out of bounds"
ErrEmptyMax == "ValueError: zero-size array to reduction operation maximum"

\* if n_cells == 0: raise
NoCells_never(n_cells) == FALSE
NoCells(n_cells) == n_cells = 0

\* np.max: the largest element, nan when any element is nan
RECURSIVE NpMax(_)
NpMax(s) ==
    IF Len(s) <= 1 THEN s[1]
    ELSE LET m == NpMax(Tail(s))
         IN  IF IsNaN(s[1]) \/ IsNaN(m) THEN NaN
             ELSE IF Lt(s[1], m) THEN m ELSE s[1]

\* the safety factor applied to the stability bound
SafetyFactor_two == R(2)
SafetyFactor == Half

\* HeatSolver._compute_stable_dt (Python float division raises on a zero divisor)
compute_stable_dt(g) ==
    LET alphas == [i \in 1..Len(g.x) |-> Div(g.k[i], g.rho_cp[i])]
        alpha_max == NpMax(alphas)
        denom == Mul(R(2), alpha_max)
    IN  IF Len(g.x) = 0
        THEN [ok |-> FALSE, err |-> ErrEmptyMax, dt |-> None]
        ELSE IF IsZero(denom)
        THEN [ok |-> FALSE, err |-> ErrZeroDivision, dt |-> None]
        ELSE [ok |-> TRUE, err |-> NoErr,
              dt |-> Mul(Div(Mul(g.dx_uniform, g.dx_uniform), denom), SafetyFactor)]

\* nsteps = max(1, int(np.ceil(t_final / dt)))
StepCount_trunc(t_final, dtv) ==
    IF dtv = None \/ IsZero(dtv) THEN [ok |-> FALSE, err |-> ErrZeroDivision, n |-> 0]
    ELSE LET q == Div(t_final, dtv)
         IN  IF ~IsFinite(q) THEN [ok |-> FALSE, err |-> ErrNanToInt, n |-> 0]
             ELSE [ok |-> TRUE, err |-> NoErr, n |-> Max2(1, Floor(q))]
StepCount(t_final, dtv) ==
    IF dtv = None \/ IsZero(dtv) THEN [ok |-> FALSE, err |-> ErrZeroDivision, n |-> 0]
    ELSE LET q == Div(t_final, dtv)
         IN  IF IsNaN(q) THEN [ok |-> FALSE, err |-> ErrNanToInt, n |-> 0]
             ELSE IF IsInf(q) THEN [ok |-> FALSE, err |-> ErrInfToInt, n |-> 0]
             ELSE [ok |-> TRUE, err |-> NoErr, n |-> Max2(1, Ceil(q))]

\* n_records = (nsteps // record_every) + 1
RecordCount(n, record_every) == (n \div record_every) + 1

\* T = np.ones(n_cells) * float(T0)
InitTemperature_stale(n_cells, T0) ==
    IF Len(T) = n_cells THEN T ELSE [i \in 1..n_cells |-> T0]
InitTemperature(n_cells, T0) == [i \in 1..n_cells |-> T0]

\* the left neighbour of cell i (1-based): temperature, distance, conductivity
T_left(Tv, bc, i) == IF i = 1 THEN bc[1] ELSE Tv[i - 1]

dx_left_uniform(g, i) ==
    IF i = 1 THEN g.dx_uniform ELSE Sub(g.x[i], g.x[i - 1])
dx_left(g, i) ==
    LET xs == g.x
    IN  IF i = 1
        THEN (IF Len(xs) > 1
              THEN Sub(xs[i], Sub(xs[i], Div(Sub(xs[i + 1], xs[i]), R(2))))
              ELSE g.dx_uniform)
        ELSE Sub(xs[i], xs[i - 1])

k_left(g, i) ==
    LET ks == g.k
    IN  IF i = 1 THEN ks[i]
        ELSE IF ~IsZero(Add(ks[i], ks[i - 1]))
             THEN Div(Mul(Mul(R(2), ks[i]), ks[i - 1]), Add(ks[i], ks[i - 1]))
             ELSE Zero

\* the right neighbour of cell i
T_right(Tv, bc, i) == IF i = Len(Tv) THEN bc[2] ELSE Tv[i + 1]

dx_right(g, i) ==
    LET xs == g.x
    IN  IF i = Len(xs)
        THEN (IF Len(xs) > 1
              THEN Sub(Add(xs[i], Div(Sub(xs[i], xs[i - 1]), R(2))), xs[i])
              ELSE g.dx_uniform)
        ELSE Sub(xs[i + 1], xs[i])

k_right(g, i) ==
    LET ks == g.k
    IN  IF i = Len(ks) THEN ks[i]
        ELSE IF ~IsZero(Add(ks[i], ks[i + 1]))
             THEN Div(Mul(Mul(R(2), ks[i]), ks[i + 1]), Add(ks[i], ks[i + 1]))
             ELSE Zero

\* T_new[i] = T[i] + dt * dTdt
NewTemp(g, Tv, bc, dtv, i) ==
    LET dxl == dx_left(g, i)
        dxr == dx_right(g, i)
        dx_cell == Mul(Half, Add(dxl, dxr))
        flux_right == IF ~IsZero(dxr)
                      THEN Div(Mul(k_right(g, i), Sub(T_right(Tv, bc, i), Tv[i])), dxr)
                      ELSE Zero
        flux_left == IF ~IsZero(dxl)
                     THEN Div(Mul(k_left(g, i), Sub(Tv[i], T_left(Tv, bc, i))), dxl)
                     ELSE Zero
        dTdt == Div(Div(Sub(flux_right, flux_left), dx_cell), g.rho_cp[i])
    IN  Add(Tv[i], Mul(dtv, dTdt))

\* the same loop with T_new aliasing T (no copy): cell i is written from the
\* values already updated within the step
RECURSIVE CellLoop_inplace(_, _, _, _, _, _)
CellLoop_inplace(g, Tv, T_new, bc, dtv, i) ==
    IF i > Len(Tv) THEN T_new
    ELSE CellLoop_inplace(g, Tv, [T_new EXCEPT ![i] = NewTemp(g, T_new, bc, dtv, i)],
                          bc, dtv, i + 1)

\* the loop over the cells of one time step: T_new starts as a copy of T and
\* cell i is written from the temperatures T of the previous step
RECURSIVE CellLoop(_, _, _, _, _, _)
CellLoop(g, Tv, T_new, bc, dtv, i) ==
    IF i > Len(Tv) THEN T_new
    ELSE CellLoop(g, Tv, [T_new EXCEPT ![i] = NewTemp(g, Tv, bc, dtv, i)], bc, dtv, i + 1)

StepT(g, Tv, bc, dtv) == CellLoop(g, Tv, Tv, bc, dtv, 1)

\* step % record_every == 0
RecordNow(stp, record_every) == stp % record_every = 0

\* the arguments a caller may pass to solve
TFinals == {Q(1, 4), Q(3, 4)}
DtChoices == {None, Q(2, 5)}
\* (T0, bc): a stack already at its boundary temperature, a cold stack between
\* two warm faces (kelvin), and a transient between unequal faces
Steady == <<R(300), <<R(300), R(300)>>>>
WarmUp == <<Q(5863, 20), <<R(300), R(300)>>>>
Transient == <<R(1), <<R(2), Zero>>>>
\* The kelvin warm-up is enumerated for one-layer stacks only: on a stack of
\* several layers its exact rationals outgrow TLC's 32-bit integers.
TempChoices(ls) == IF Len(ls) = 1 THEN {Steady, WarmUp, Transient} ELSE {Steady, Transient}
SolveArgs(ls) ==
    { [t_final |-> tf, dt |-> d, T0 |-> tc[1], bc |-> tc[2], record_every |-> re] :
        tf \in TFinals, d \in DtChoices, tc \in TempChoices(ls), re \in 1..MaxRecordEvery }
NoArgs == [t_final |-> Zero, dt |-> None, T0 |-> Zero, bc |-> <<Zero, Zero>>,
           record_every |-> 1]
NoResult == <<>>

Init ==
    /\ phase = "start"
    /\ layers = <<>>
    /\ dx_target = One
    /\ x = <<>> /\ k = <<>> /\ rho_cp = <<>>
    /\ dx_uniform = Zero
    /\ err = NoErr
    /\ args = NoArgs
    /\ dt = Zero /\ nsteps = 0 /\ n_records = 0
    /\ T = <<>> /\ step = 0 /\ rec_idx = 0 /\ T_record = <<>> /\ times = <<>>
    /\ result = NoResult
    /\ used = FALSE

\* HeatSolver(layers, dx_target)
Construct ==
    /\ phase = "start"
    /\ \E ls \in LayerSeqs, dxt \in DxTargets :
         LET g == build_grid_properties(ls, dxt)
         IN  /\ layers' = ls
             /\ dx_target' = dxt
             /\ IF g.ok
                THEN /\ phase' = "configured"
                     /\ x' = g.x /\ k' = g.k /\ rho_cp' = g.rho_cp
                     /\ dx_uniform' = DxUniform(g.x)
                     /\ err' = NoErr
                ELSE /\ phase' = "failed"
                     /\ err' = g.err
                     /\ UNCHANGED <<x, k, rho_cp, dx_uniform>>
    /\ UNCHANGED <<args, locals, result, used>>

\* solve(...) up to the start of the time loop, or up to the exception it raises
SolveBegin ==
    /\ phase = "configured"
    /\ \E a \in SolveArgs(layers) :
         LET n_cells == Len(x)
             sd == IF a.dt = None THEN compute_stable_dt(self)
                   ELSE [ok |-> TRUE, err |-> NoErr, dt |-> a.dt]
             sc == StepCount(a.t_final, sd.dt)
             T_init == InitTemperature(n_cells, a.T0)
             nrec == RecordCount(sc.n, a.record_every)
             raised == IF NoCells(n_cells) THEN ErrNoCells
                       ELSE IF ~sd.ok THEN sd.err
                       ELSE IF ~sc.ok THEN sc.err
                       ELSE NoErr
         IN  /\ raised = NoErr => sc.n <= MaxSteps
             /\ args' = a
             /\ result' = NoResult
             /\ err' = raised
             /\ IF raised # NoErr
                THEN /\ phase' = "configured"
                     /\ used' = TRUE
                     /\ UNCHANGED locals
                ELSE /\ phase' = "solving"
                     /\ dt' = sd.dt
                     /\ nsteps' = sc.n
                     /\ n_records' = nrec
                     /\ T' = T_init
                     /\ step' = 0
                     /\ T_record' = [r \in 1..nrec |->
                                       IF r = 1 THEN T_init
                                       ELSE [i \in 1..n_cells |-> Zero]]
                     /\ times' = [r \in 1..nrec |-> Zero]
                     /\ rec_idx' = 1
                     /\ UNCHANGED used
    /\ UNCHANGED <<layers, dx_target, grid>>

\* one iteration of the time loop
SolveStep ==
    /\ phase = "solving"
    /\ step < nsteps
    /\ LET T_new == StepT(self, T, args.bc, dt)
       IN  /\ step' = step + 1
           /\ T' = T_new
           /\ IF RecordNow(step + 1, args.record_every)
              THEN IF rec_idx + 1 > n_records
                   THEN /\ err' = ErrIndex
                        /\ phase' = "configured"
                        /\ used' = TRUE
                        /\ UNCHANGED <<times, T_record, rec_idx>>
                   ELSE /\ times' = [times EXCEPT ![rec_idx + 1] = Mul(R(step + 1), dt)]
                        /\ T_record' = [T_record EXCEPT ![rec_idx + 1] = T_new]
                        /\ rec_idx' = rec_idx + 1
                        /\ UNCHANGED <<err, phase, used>>
              ELSE UNCHANGED <<times, T_record, rec_idx, err, phase, used>>
    /\ UNCHANGED <<layers, dx_target, grid, args, dt, nsteps, n_records, result>>

\* the loop is over: trim the records and return
SolveReturn ==
    /\ phase = "solving"
    /\ step = nsteps
    /\ result' = [times |-> SubSeq(times, 1, rec_idx),
                  T_record |-> SubSeq(T_record, 1, rec_idx)]
    /\ phase' = "configured"
    /\ used' = TRUE
    /\ UNCHANGED <<layers, dx_target, grid, err, args, locals>>

Next == Construct \/ SolveBegin \/ SolveStep \/ SolveReturn

Spec == Init /\ [][Next]_vars

\* ------------------------------------------------------------------ claims
Solving == phase = "solving"
Returned == result # NoResult
Built == phase \in {"configured", "solving"}
N == Len(x)
AllCells(row, v) == \A i \in 1..Len(row) : row[i] = v

\* C1: for t_final > 0, dt > 0 and record_every >= 1, a solve call that returns
\* has executed nsteps = ceil(t_final / dt) steps and returns exactly
\* floor(nsteps / record_every) + 1 snapshots, the first being the initial
\* condition at t = 0; times and the temperature rows have that length and every
\* row has one entry per cell.
C1_SnapshotCount ==
    (Returned /\ Lt(Zero, args.t_final) /\ Lt(Zero, dt)) =>
        /\ step = nsteps
        /\ Le(args.t_final, Mul(R(step), dt))
        /\ Lt(Mul(R(step - 1), dt), args.t_final)
        /\ Len(result.times) = (step \div args.record_every) + 1
        /\ Len(result.T_record) = Len(result.times)
        /\ (args.record_every = 1 => Len(result.times) = step + 1)
        /\ \A r \in 1..Len(result.T_record) : Len(result.T_record[r]) = N
        /\ result.times[1] = Zero
        /\ AllCells(result.T_record[1], args.T0)

C1_Witness ==
    /\ Returned
    /\ step = 3 /\ args.record_every = 2
    /\ Len(result.times) = 2
    /\ ~(Mul(R(2), dt) = args.t_final)

\* C2 (the claim as stated): when both boundary temperatures and T0 equal T,
\* every cell of every recorded snapshot equals T, on any grid the solver holds.
C2_SteadyStateClaim ==
    (Built /\ args.bc[1] = args.T0 /\ args.bc[2] = args.T0 /\ (Solving \/ Returned)) =>
        \A r \in 1..rec_idx : AllCells(T_record[r], args.T0)

\* C3 (the claim as stated): constructing a solver from an empty layer
\* sequence fails at construction time.
C3_EmptyFailsAtConstruction ==
    (phase # "start" /\ layers = <<>>) => (phase = "failed" /\ err # NoErr)

\* C3 (amended): constructing a solver from an empty layer sequence succeeds
\* with a zero-cell grid and dx_uniform = 1.0; every solve call on it raises
\* "No grid cells created." before any step runs, and returns no history.
C3_EmptyFailsAtSolve ==
    (phase # "start" /\ layers = <<>>) =>
        /\ phase = "configured"
        /\ x = <<>> /\ k = <<>> /\ rho_cp = <<>>
        /\ dx_uniform = One
        /\ result = NoResult
        /\ step = 0 /\ T = <<>> /\ T_record = <<>>
        /\ (~used => err = NoErr)
        /\ (used => err = ErrNoCells)

C3_Witness ==
    /\ layers = <<>> /\ phase = "configured"
    /\ used /\ err = ErrNoCells /\ result = NoResult

\* C4 (the claim as stated): a layer whose material has a non-positive density
\* or specific heat is rejected at construction, so that no grid is built, and
\* no solve runs, with a cell whose rho*cp is <= 0.
NonPositive(v) == v # None /\ Le(v, Zero)
C4_NonPositiveRejected ==
    /\ (phase # "start" /\ \E j \in 1..Len(layers) :
            \/ NonPositive(density(layers[j].material))
            \/ NonPositive(specific_heat(layers[j].material)))
       => phase = "failed"
    /\ Built => \A i \in 1..N : Lt(Zero, rho_cp[i])

\* C5: build_grid_properties fails whenever some layer, at any position, has a
\* thickness <= 0 or a conductivity, density or specific heat that is absent;
\* the failure is the one of the first such layer, and no grid array is kept,
\* not even the cells of the valid layers before it.
ThicknessBad(l) == Le(l.thickness, Zero)
PropsAbsent(l) ==
    \/ (l.conductivity = None /\ l.material.thermal_conductivity = None)
    \/ l.material.density = None
    \/ l.material.specific_heat = None
BadLayer(l) == ThicknessBad(l) \/ PropsAbsent(l)
AnyBad == \E j \in 1..Len(layers) : BadLayer(layers[j])
FirstBad == CHOOSE j \in 1..Len(layers) :
                BadLayer(layers[j]) /\ \A h \in 1..(j - 1) : ~BadLayer(layers[h])
C5_BadLayerFails ==
    (phase # "start" /\ AnyBad) =>
        /\ phase = "failed"
        /\ err = IF ThicknessBad(layers[FirstBad]) THEN ErrThickness ELSE ErrMissing
        /\ x = <<>> /\ k = <<>> /\ rho_cp = <<>>
        /\ result = NoResult

C5_Witness ==
    /\ phase = "failed"
    /\ Len(layers) = 2
    /\ ~BadLayer(layers[1])
    /\ ThicknessBad(layers[2])
    /\ x = <<>>

\* C6: for a non-empty sequence of valid layers the grid has at least one cell
\* in every layer, every cell centre lies inside exactly one layer, the centres
\* are strictly increasing, and the cells tile the stack: with the cell edges
\* rebuilt from the centres (edge 0 at 0, each centre midway between its
\* edges) every cell has a positive width, the last edge is the total
\* thickness, and every layer boundary is a cell edge (no cell straddles one).
RECURSIVE Offset(_)
Offset(j) == IF j = 0 THEN Zero ELSE Add(Offset(j - 1), layers[j].thickness)
RECURSIVE Edge(_)
Edge(i) == IF i = 0 THEN Zero ELSE Sub(Mul(R(2), x[i]), Edge(i - 1))
CellsIn(j) == {i \in 1..N : Lt(Offset(j - 1), x[i]) /\ Lt(x[i], Offset(j))}
RECURSIVE CellTotal(_)
CellTotal(j) == IF j = 0 THEN 0 ELSE CellTotal(j - 1) + Cardinality(CellsIn(j))
C6_GridTilesStack ==
    (phase = "configured" /\ ~used /\ Len(layers) > 0) =>
        /\ \A j \in 1..Len(layers) : CellsIn(j) # {}
        /\ CellTotal(Len(layers)) = N
        /\ \A i \in 1..(N - 1) : Lt(x[i], x[i + 1])
        /\ \A i \in 1..N : Lt(Edge(i - 1), x[i])
        /\ Edge(N) = Offset(Len(layers))
        /\ \A j \in 1..Len(layers) : \E i \in 1..N : Edge(i) = Offset(j)
        /\ Len(k) = N /\ Len(rho_cp) = N

C6_Witness ==
    /\ phase = "configured"
    /\ Len(layers) = 2 /\ N = 3
    /\ Sub(x[2], x[1]) # Sub(x[3], x[2])
    /\ Cardinality(CellsIn(1)) = 1 /\ Cardinality(CellsIn(2)) = 2

\* C7 (the claim as stated): the last snapshot of the returned history is the
\* state after the final executed step, at time nsteps * dt.
C7_LastSnapshotIsFinal ==
    Returned =>
        /\ Last(result.T_record) = T
        /\ Last(result.times) = Mul(R(nsteps), dt)

\* C8: for a single homogeneous layer with bc = (300, 300), T0 = 293.15 and the
\* default dt, every time step leaves every cell temperature >= its previous
\* value and <= 300.
WarmUpCall ==
    /\ Len(layers) = 1
    /\ args.T0 = WarmUp[1] /\ args.bc = WarmUp[2]
    /\ args.dt = None
C8_MonotoneNoOvershoot ==
    [][(Solving /\ WarmUpCall /\ step' = step + 1) =>
          \A i \in 1..N : Le(T[i], T'[i]) /\ Le(T'[i], R(300))]_vars

C8_Witness ==
    /\ Solving /\ WarmUpCall
    /\ N = 3 /\ step = 3
    /\ Lt(WarmUp[1], T[2]) /\ Lt(T[2], R(300))

\* C9: a solve call leaves the grid as the constructor built it, and the
\* history it returns is the one a freshly constructed solver returns for the
\* same arguments, whatever calls were made before.
FreshGrid ==
    LET g == build_grid_properties(layers, dx_target)
    IN  Grid(g.x, g.k, g.rho_cp, DxUniform(g.x))
RECURSIVE FreshRun(_, _, _, _, _, _)
FreshRun(g, dtv, n, stp, Tv, h) ==
    IF stp > n THEN h
    ELSE LET Tn == StepT(g, Tv, args.bc, dtv)
         IN  FreshRun(g, dtv, n, stp + 1, Tn,
                 IF stp % args.record_every = 0
                 THEN [times |-> Append(h.times, Mul(R(stp), dtv)),
                       T_record |-> Append(h.T_record, Tn)]
                 ELSE h)
FreshSolve ==
    LET g == FreshGrid
        dtv == IF args.dt = None THEN compute_stable_dt(g).dt ELSE args.dt
        n == StepCount(args.t_final, dtv).n
        T_init == [i \in 1..Len(g.x) |-> args.T0]
    IN  FreshRun(g, dtv, n, 1, T_init, [times |-> <<Zero>>, T_record |-> <<T_init>>])
C9_NoCarryOver ==
    /\ Built => self = FreshGrid
    /\ Returned => result = FreshSolve

\* a second (or later) call has run all its steps and is about to return
C9_Witness ==
    /\ Solving /\ used
    /\ step = nsteps /\ step >= 2
    /\ rec_idx >= 2 /\ T_record[2] # T_record[1]

\* C10: the update of the first and of the last cell, with the boundary-side
\* distance given as dl (left of the first cell) and dr (right of the last).
Harmonic(a, b) ==
    IF ~IsZero(Add(a, b)) THEN Div(Mul(Mul(R(2), a), b), Add(a, b)) ELSE Zero
FirstCellUpdate(dl) ==
    LET dr == IF N = 1 THEN dx_uniform ELSE Sub(x[2], x[1])
        kr == IF N = 1 THEN k[1] ELSE Harmonic(k[1], k[2])
        Tr == IF N = 1 THEN args.bc[2] ELSE T[2]
        fr == Div(Mul(kr, Sub(Tr, T[1])), dr)
        fl == Div(Mul(k[1], Sub(T[1], args.bc[1])), dl)
    IN  Add(T[1], Mul(dt, Div(Div(Sub(fr, fl), Mul(Half, Add(dl, dr))), rho_cp[1])))
LastCellUpdate(dr) ==
    LET dl == IF N = 1 THEN dx_uniform ELSE Sub(x[N], x[N - 1])
        kl == IF N = 1 THEN k[N] ELSE Harmonic(k[N], k[N - 1])
        Tl == IF N = 1 THEN args.bc[1] ELSE T[N - 1]
        fr == Div(Mul(k[N], Sub(args.bc[2], T[N])), dr)
        fl == Div(Mul(kl, Sub(T[N], Tl)), dl)
    IN  Add(T[N], Mul(dt, Div(Div(Sub(fr, fl), Mul(Half, Add(dl, dr))), rho_cp[N])))
TimeStep == Solving /\ step' = step + 1

\* C10 (the claim as stated): in every time step the first (last) cell is
\* updated from bc[0] (bc[1]), its own conductivity and dx_uniform as the
\* boundary-side distance, on every grid.
C10_BoundaryUsesDxUniform ==
    [][(TimeStep /\ N > 1) =>
          /\ T'[1] = FirstCellUpdate(dx_uniform)
          /\ T'[N] = LastCellUpdate(dx_uniform)]_vars

\* C10 (amended): in every time step the first (last) cell is updated from
\* bc[0] (bc[1]) and its own conductivity; the boundary-side distance is
\* dx_uniform only on a one-cell grid, and on a grid of several cells it is
\* half the distance between the first (last) two cell centres.
C10_BoundaryUsesHalfSpacing ==
    [][TimeStep =>
          IF N = 1
          THEN /\ T'[1] = FirstCellUpdate(dx_uniform)
               /\ T'[1] = LastCellUpdate(dx_uniform)
          ELSE /\ T'[1] = FirstCellUpdate(Div(Sub(x[2], x[1]), R(2)))
               /\ T'[N] = LastCellUpdate(Div(Sub(x[N], x[N - 1]), R(2)))]_vars

C10_Witness ==
    /\ Solving /\ step >= 1
    /\ Len(layers) = 2 /\ N = 3
    /\ Sub(x[2], x[1]) # Sub(x[3], x[2])
    /\ args.T0 = Transient[1]
    /\ T[1] # args.T0 /\ T[3] # args.T0
    /\ IsFinite(T[1]) /\ IsFinite(T[3])

\* C11: the temperatures of the previous step as cell i may see them: its own
\* value and those of cells i-1 and i+1, every other cell blanked out.
Window(Tv, i) ==
    [j \in 1..Len(Tv) |-> IF j \in {i - 1, i, i + 1} THEN Tv[j] ELSE Zero]
JacobiCell(i) == NewTemp(self, Window(T, i), args.bc, dt, i)

\* the cells visited from the last to the first, each written from T
RECURSIVE VisitDown(_, _)
VisitDown(T_new, i) ==
    IF i < 1 THEN T_new
    ELSE VisitDown([T_new EXCEPT ![i] = NewTemp(self, T, args.bc, dt, i)], i - 1)

\* C11: each time step is a Jacobi update: the new temperature of every cell
\* i is computed only from the temperatures of cells i-1, i, i+1 (or the
\* boundary values) as they were at the end of the previous step, never from
\* a value already updated within the step, so visiting the cells in the
\* opposite order gives the same result.
C11_JacobiUpdate ==
    [][TimeStep =>
          /\ Len(T') = N
          /\ \A i \in 1..N : T'[i] = JacobiCell(i)
          /\ T' = VisitDown(T, N)]_vars

\* a recorded step on a three-cell grid whose result differs from what an
\* update reading the values already written within the step would give
C11_Witness ==
    /\ Solving /\ step = 1 /\ rec_idx = 2
    /\ args.record_every = 1
    /\ Len(layers) = 1 /\ N = 3
    /\ args.T0 = Transient[1]
    /\ T = T_record[2]
    /\ T = CellLoop(self, T_record[1], T_record[1], args.bc, dt, 1)
    /\ T # CellLoop_inplace(self, T_record[1], T_record[1], args.bc, dt, 1)
    /\ \A i \in 1..N : IsFinite(T[i])
====
